---------------------------- MODULE Spec2Model ----------------------------
(***************************************************************************)
(* Model of the telemetry core of src/main.py (LongToneVisualizer): the    *)
(* MIDI event dispatch and rolling history of process_midi, the per-note   *)
(* statistics, the gap-bridging smoother of update_graph, and the key      *)
(* handling of run (clear history, select controller).                     *)
(*                                                                         *)
(* The histories are numpy float64 arrays.  Raw velocities are MIDI data   *)
(* bytes, so they are integer valued; the interpolated and averaged values *)
(* of update_graph are not, and they are modelled bit-exactly: a float64   *)
(* value x >= 0 is the triple <<h, m, l>> with                             *)
(*      x = (h * Limb^2 + m * Limb + l) / 2^60,    0 <= m, l < Limb        *)
(* Every float64 the program computes here is 0 or lies in [2^-6, 2^9), so *)
(* it is a multiple of 2^-60 and has such a triple; each arithmetic        *)
(* operation is the exact operation followed by IEEE-754 rounding to 53    *)
(* significant bits, round-half-to-even.                                   *)
(***************************************************************************)
EXTENDS Integers, Sequences, FiniteSets, TLC

(***************************************************************************)
(* Bounds of the model.                                                    *)
(***************************************************************************)
\* Length of the rolling history in Spec (HISTORY_LENGTH = 300 in main.py:14,
\* scaled down so that the window wraps within the explored behaviours).
HISTORY_LENGTH == 3

\* Messages handled by one process_midi call (midi_input.read(10), scaled).
MaxRead == 1

\* Length of the buffers SpecSmooth draws: long enough to hold two anchors
\* around a gap that exceeds gap_threshold.
SmoothLen == 27

\* Notes and note-on velocities that the MIDI device sends in the model, and
\* its control changes as <<controller, value>>.
Notes == {60, 62}
OnVelocities == {80}
ControlChanges == {<<7, 0>>, <<7, 100>>, <<2, 100>>}
\* Number keys pressed in the model (pygame.K_1 .. pygame.K_9 in the code).
SelectKeys == {2, 7}

(***************************************************************************)
(* Program constants.                                                      *)
(***************************************************************************)
gap_threshold == 20

NOTE_COLORS ==
    << <<65, 156, 255>>, <<255, 100, 100>>, <<100, 255, 100>>,
       <<255, 255, 100>>, <<255, 100, 255>>, <<100, 255, 255>>,
       <<255, 150, 100>>, <<150, 100, 255>>, <<255, 200, 150>>,
       <<150, 255, 150>>, <<200, 150, 255>>, <<255, 150, 200>> >>

\* Python's None, the initial current_note; no MIDI data byte equals it.
None == -2

(***************************************************************************)
(* float64 arithmetic on limb triples.                                     *)
(***************************************************************************)
Limb == 2^24

FromInt(k) == <<k * 4096, 0, 0>>

FZero == FromInt(0)

\* The float64 literal 0.7 = 6305039478318694 / 2^53.
F07 == <<2867, 3355443, 3355392>>

FLess(x, y) ==
    \/ x[1] < y[1]
    \/ x[1] = y[1] /\ x[2] < y[2]
    \/ x[1] = y[1] /\ x[2] = y[2] /\ x[3] < y[3]

FLeq(x, y) == x = y \/ FLess(x, y)

FMax(x, y) == IF FLess(x, y) THEN y ELSE x

\* Exact sum.
XAdd(x, y) ==
    LET l == x[3] + y[3]
        m == x[2] + y[2] + (l \div Limb)
        h == x[1] + y[1] + (m \div Limb)
    IN  <<h, m % Limb, l % Limb>>

\* Exact difference, x >= y.
XSub(x, y) ==
    LET l == x[3] - y[3] + Limb
        m == x[2] - y[2] + Limb - 1 + (l \div Limb)
        h == x[1] - y[1] - 1 + (m \div Limb)
    IN  <<h, m % Limb, l % Limb>>

\* Exact product with an integer 0 <= k <= 127.
XMul(k, x) ==
    LET l == k * x[3]
        m == k * x[2] + (l \div Limb)
        h == k * x[1] + (m \div Limb)
    IN  <<h, m % Limb, l % Limb>>

\* Quotient by an integer d > 0, truncated to a multiple of 2^-60, and
\* whether anything was cut off.
XDiv(x, d) ==
    LET t == (x[1] % d) * Limb + x[2]
        u == (t % d) * Limb + x[3]
    IN  [q |-> <<x[1] \div d, t \div d, u \div d>>, inexact |-> (u % d) # 0]

RECURSIVE BitLen(_)
BitLen(n) == IF n = 0 THEN 0 ELSE 1 + BitLen(n \div 2)

\* Round to 53 significant bits, ties to even; sticky: the exact value lies
\* strictly above x.
Round(x, sticky) ==
    LET len == IF x[1] > 0 THEN 48 + BitLen(x[1])
               ELSE IF x[2] > 0 THEN 24 + BitLen(x[2])
               ELSE BitLen(x[3])
    IN  IF len <= 53 THEN x
        ELSE LET p == 2^(len - 53)
                 r == x[3] % p
                 odd == (x[3] \div p) % 2 = 1
                 up == r > p \div 2 \/ (r = p \div 2 /\ (sticky \/ odd))
                 base == <<x[1], x[2], x[3] - r>>
             IN  IF up THEN XAdd(base, <<0, 0, p>>) ELSE base

FAdd(x, y) == Round(XAdd(x, y), FALSE)

FSub(x, y) == Round(XSub(x, y), FALSE)

\* k * x for an integer-valued float k.
FMul(k, x) == Round(XMul(k, x), FALSE)

FDiv(x, d) == LET r == XDiv(x, d) IN Round(r.q, r.inexact)

(***************************************************************************)
(* numpy helpers.                                                          *)
(***************************************************************************)
Min(a, b) == IF a <= b THEN a ELSE b

Indices(s) == [i \in 1..Len(s) |-> i]

\* Faulty variant of np_roll: rolls the other way.
np_roll_wrong_way(a) == <<a[Len(a)]>> \o SubSeq(a, 1, Len(a) - 1)
\* np.roll(a, -1): every element one place toward index 0, the first to the end.
np_roll(a) == Tail(a) \o <<Head(a)>>

\* a = np.roll(a, -1); a[-1] = x
Push(a, x) == [np_roll(a) EXCEPT ![Len(a)] = x]

RECURSIVE SeqSum(_)
SeqSum(s) == IF s = <<>> THEN 0 ELSE Head(s) + SeqSum(Tail(s))

RECURSIVE SeqMin(_)
SeqMin(s) == IF Len(s) = 1 THEN s[1] ELSE Min(s[1], SeqMin(Tail(s)))

RECURSIVE SeqMax(_)
SeqMax(s) == IF Len(s) = 1 THEN s[1]
             ELSE LET t == SeqMax(Tail(s)) IN IF s[1] >= t THEN s[1] ELSE t

(***************************************************************************)
(* Per-note statistics (process_midi, after the push).                     *)
(***************************************************************************)
\* Faulty variant of current_note_velocities: the note mask is left out.
current_note_velocities_any_note(vh, nh, note) ==
    SelectSeq(vh, LAMBDA v : v > 0)
\* velocity_history[note_history == current_note], then [... > 0]
current_note_velocities(vh, nh, note) ==
    LET idx == SelectSeq(Indices(vh), LAMBDA i : nh[i] = note /\ vh[i] > 0)
    IN  [k \in 1..Len(idx) |-> vh[idx[k]]]

\* np.std(xs) = sqrt(mean(|x - mean|^2)) = sqrt(V) / n with
\* V = n * sum(x^2) - sum(x)^2; the pair <<V, n>> stands for it, the square
\* root is not evaluated.
np_std(xs) ==
    <<Len(xs) * SeqSum([k \in 1..Len(xs) |-> xs[k] * xs[k]])
        - SeqSum(xs) * SeqSum(xs), Len(xs)>>

\* np.mean(xs): the sum of integer-valued floats is exact, the division rounds.
np_mean(xs) == FDiv(FromInt(SeqSum(xs)), Len(xs))

InitialStats == [mean |-> FZero, std_dev |-> <<0, 1>>, min |-> 0, max |-> 0]

\* The statistics after a push: recomputed when the filtered subset is not
\* empty, left as they were otherwise.
UpdatedStats(old, vh, nh, note) ==
    LET xs == current_note_velocities(vh, nh, note)
    IN  IF Len(xs) > 0
        THEN [mean |-> np_mean(xs), std_dev |-> np_std(xs),
              min |-> SeqMin(xs), max |-> SeqMax(xs)]
        ELSE old

(***************************************************************************)
(* Gap-bridging smoother (update_graph).  Indices are 1-based here.        *)
(***************************************************************************)
\* np.where(velocity_history > 0)[0]
non_zero_indices(vh) == SelectSeq(Indices(vh), LAMBDA i : vh[i] > 0)

\* Faulty variant of IsBriefGap: the threshold is left out.
IsBriefGap_no_limit(gap_size) == gap_size > 0
\* The test that decides whether a gap is bridged.
IsBriefGap(gap_size) == gap_size <= gap_threshold /\ gap_size > 0

\* The value written at start_idx + j.
Interpolate(vh, start_idx, end_idx, j) ==
    LET gap_size == end_idx - start_idx - 1
        start_vel == vh[start_idx]
        end_vel == vh[end_idx]
        min_transition_velocity == FMul(Min(start_vel, end_vel), F07)
        alpha == FDiv(FromInt(j), gap_size + 1)
        interp_vel == FAdd(FMul(start_vel, FSub(FromInt(1), alpha)),
                           FMul(end_vel, alpha))
    IN  FMax(interp_vel, min_transition_velocity)

\* Faulty variant of FillGap: the note of the left-hand anchor is preferred.
FillGap_start_note(acc, vh, nh, start_idx, end_idx) ==
    LET start_note == nh[start_idx]
        end_note == nh[end_idx]
        inside(k) == start_idx < k /\ k < end_idx
    IN  [vel |-> [k \in 1..Len(vh) |->
                    IF inside(k) THEN Interpolate(vh, start_idx, end_idx, k - start_idx)
                    ELSE acc.vel[k]],
         note |-> [k \in 1..Len(vh) |->
                    IF inside(k) /\ start_note >= 0 THEN start_note
                    ELSE IF inside(k) /\ end_note >= 0 THEN end_note
                    ELSE acc.note[k]]]

\* The inner loop: every sample of the gap between two anchors.
FillGap(acc, vh, nh, start_idx, end_idx) ==
    LET start_note == nh[start_idx]
        end_note == nh[end_idx]
        inside(k) == start_idx < k /\ k < end_idx
    IN  [vel |-> [k \in 1..Len(vh) |->
                    IF inside(k) THEN Interpolate(vh, start_idx, end_idx, k - start_idx)
                    ELSE acc.vel[k]],
         note |-> [k \in 1..Len(vh) |->
                    IF inside(k) /\ end_note >= 0 THEN end_note
                    ELSE IF inside(k) /\ start_note >= 0 THEN start_note
                    ELSE acc.note[k]]]

\* The outer loop over consecutive anchors, from the i-th on.
RECURSIVE BridgeGaps(_, _, _, _, _)
BridgeGaps(i, nzi, vh, nh, acc) ==
    IF i > Len(nzi) - 1 THEN acc
    ELSE LET start_idx == nzi[i]
             end_idx == nzi[i + 1]
             gap_size == end_idx - start_idx - 1
         IN  BridgeGaps(i + 1, nzi, vh, nh,
                        IF IsBriefGap(gap_size)
                        THEN FillGap(acc, vh, nh, start_idx, end_idx)
                        ELSE acc)

\* velocity_smoothed and note_history_smoothed after the bridging loop.
Bridged(vh, nh) ==
    BridgeGaps(1, non_zero_indices(vh), vh, nh,
               [vel |-> [k \in 1..Len(vh) |-> FromInt(vh[k])], note |-> nh])

\* The 3-point moving average over velocity_smoothed.
MovingAverage(vs) ==
    [i \in 1..Len(vs) |->
        IF 1 < i /\ i < Len(vs) /\ FLess(FZero, vs[i])
        THEN FDiv(FAdd(FAdd(vs[i - 1], vs[i]), vs[i + 1]), 3)
        ELSE vs[i]]

\* Faulty variant of update_graph: the bridged notes are written to the note
\* history itself, not to a copy of it.
update_graph_no_copy(vh, nh) ==
    LET b == Bridged(vh, nh)
    IN  [velocity_history |-> vh, note_history |-> b.note,
         velocity_final |-> MovingAverage(b.vel),
         note_history_smoothed |-> b.note]
\* update_graph up to the plot: the two histories as the call leaves them (it
\* works on copies) and the two series it plots.
update_graph(vh, nh) ==
    LET b == Bridged(vh, nh)
    IN  [velocity_history |-> vh, note_history |-> nh,
         velocity_final |-> MovingAverage(b.vel),
         note_history_smoothed |-> b.note]

(***************************************************************************)
(* State.                                                                  *)
(***************************************************************************)
VARIABLES
    current_note,           \* self.current_note
    current_velocity,       \* self.current_velocity
    is_note_active,         \* self.is_note_active
    velocity_history,       \* self.velocity_history (integer-valued floats)
    note_history,           \* self.note_history
    note_colors,            \* self.note_colors: note -> RGB
    color_index,            \* self.color_index
    stats,                  \* self.stats
    cc_values,              \* self.cc_values: controller -> value
    selected_cc,            \* self.selected_cc
    midi_input,             \* self.midi_input: the messages the opened device sends
    pc,                     \* position in one iteration of run's loop
    key,                    \* run's loop variable: event.key of the key handled last
    event,                  \* process_midi's loop variable: the message handled last
    n_read,                 \* messages handled by the current process_midi call
    velocity_final,         \* update_graph's local: the display velocities
    note_history_smoothed,  \* update_graph's local: the display note-ids
    silent_ticks,           \* history: process_midi calls since the last push
    boundary                \* history: index of the last sample pushed before
                            \* a silence longer than gap_threshold, 0 if none

vars == <<current_note, current_velocity, is_note_active, velocity_history,
          note_history, note_colors, color_index, stats, cc_values,
          selected_cc, midi_input, pc, key, event, n_read, velocity_final,
          note_history_smoothed, silent_ticks, boundary>>

\* What the smoother must leave alone.
core == <<current_note, current_velocity, is_note_active, velocity_history,
          note_history, note_colors, color_index, stats, cc_values,
          selected_cc>>

(***************************************************************************)
(* MIDI messages: data = <<status byte, data byte 1, data byte 2>>.        *)
(***************************************************************************)
NoteMessages(n) ==
    {<<144, n, v>> : v \in OnVelocities \cup {0}}    \* 0x90, channel 0
    \cup {<<129, n, 0>>}                             \* 0x81: 0x80, channel 1

ControlMessages(cs) == {<<176, c[1], c[2]>> : c \in cs}    \* 0xB0

PitchBend == <<224, 0, 64>>                                 \* 0xE0

\* The input devices of the model: what the opened device can send.  A wind
\* controller plays every note and sends its breath on controller 7; a breath
\* controller holds one note and sends every control change; a keyboard sends
\* notes only.
WindController ==
    UNION {NoteMessages(n) : n \in Notes}
    \cup ControlMessages({c \in ControlChanges : c[1] = 7}) \cup {PitchBend}
BreathController ==
    NoteMessages(60) \cup ControlMessages(ControlChanges) \cup {PitchBend}
Keyboard == UNION {NoteMessages(n) : n \in Notes}

Devices == {WindController, BreathController}

Messages == WindController \cup BreathController

\* Faulty variant of status: the channel nibble is not masked off.
status_with_channel(data) == data[1]

\* data[0] & 0xF0
status(data) == (data[1] \div 16) * 16

EmptyMap == [x \in {} |-> 0]

\* d[k] = v for a dict d
SetItem(d, k, v) == [x \in DOMAIN d \cup {k} |-> IF x = k THEN v ELSE d[x]]

Zeros(n) == [i \in 1..n |-> 0]
NoNotes(n) == [i \in 1..n |-> -1]

NoSeries == <<>>

\* The loop variable of process_midi outside the loop.
NoEvent == <<>>

\* pygame key codes: K_c, K_0 (K_1 .. K_9 follow it), and no key.
K_c == 99
K_0 == 48
NoKey == 0

\* The state __init__ leaves, whatever device setup_midi opened.
Constructed ==
    /\ current_note = None
    /\ current_velocity = 0
    /\ is_note_active = FALSE
    /\ velocity_history = Zeros(HISTORY_LENGTH)
    /\ note_history = NoNotes(HISTORY_LENGTH)
    /\ note_colors = EmptyMap
    /\ color_index = 0
    /\ stats = InitialStats
    /\ cc_values = EmptyMap
    /\ selected_cc = 7
    /\ pc = "pygame"
    /\ key = NoKey
    /\ event = NoEvent
    /\ n_read = 0
    /\ velocity_final = NoSeries
    /\ note_history_smoothed = NoSeries
    /\ silent_ticks = 0
    /\ boundary = 0

Init == midi_input \in Devices /\ Constructed

(***************************************************************************)
(* run: the pygame events of one loop iteration.                           *)
(***************************************************************************)
\* Faulty variant of KeyClear: the round-robin index is not reset.
KeyClear_keeps_index ==
    /\ pc = "pygame"
    /\ velocity_history' = Zeros(HISTORY_LENGTH)
    /\ note_history' = NoNotes(HISTORY_LENGTH)
    /\ note_colors' = EmptyMap
    /\ key' = K_c
    /\ boundary' = 0
    /\ velocity_final' = NoSeries
    /\ note_history_smoothed' = NoSeries
    /\ UNCHANGED <<current_note, current_velocity, is_note_active, stats,
                   cc_values, selected_cc, midi_input, pc, event, n_read,
                   silent_ticks, color_index>>

\* Faulty variant of KeyClear: the velocities are not reset.
KeyClear_keeps_velocities ==
    /\ pc = "pygame"
    /\ note_history' = NoNotes(HISTORY_LENGTH)
    /\ note_colors' = EmptyMap
    /\ color_index' = 0
    /\ key' = K_c
    /\ boundary' = 0
    /\ velocity_final' = NoSeries
    /\ note_history_smoothed' = NoSeries
    /\ UNCHANGED <<current_note, current_velocity, is_note_active, stats,
                   cc_values, selected_cc, midi_input, pc, event, n_read,
                   silent_ticks, velocity_history>>

\* K_c: clear history.
KeyClear ==
    /\ pc = "pygame"
    /\ velocity_history' = Zeros(HISTORY_LENGTH)
    /\ note_history' = NoNotes(HISTORY_LENGTH)
    /\ note_colors' = EmptyMap
    /\ color_index' = 0
    /\ key' = K_c
    /\ boundary' = 0
    /\ velocity_final' = NoSeries
    /\ note_history_smoothed' = NoSeries
    /\ UNCHANGED <<current_note, current_velocity, is_note_active, stats,
                   cc_values, selected_cc, midi_input, pc, event, n_read,
                   silent_ticks>>

\* K_1 .. K_9: selected_cc = event.key - K_0.
KeySelect(n) ==
    /\ pc = "pygame"
    /\ key' = K_0 + n
    /\ selected_cc' = key' - K_0
    /\ velocity_final' = NoSeries
    /\ note_history_smoothed' = NoSeries
    /\ UNCHANGED <<current_note, current_velocity, is_note_active,
                   velocity_history, note_history, note_colors, color_index,
                   stats, cc_values, midi_input, pc, event, n_read, silent_ticks,
                   boundary>>

\* The event queue is drained; process_midi is entered.  (clock.tick(UPDATE_RATE)
\* makes an iteration last longer than MIDI_POLL_RATE, so every iteration calls it.)
EndPygame ==
    /\ pc = "pygame"
    /\ pc' = "midi"
    /\ key' = NoKey
    /\ n_read' = 0
    /\ event' = NoEvent
    /\ UNCHANGED <<core, midi_input, velocity_final, note_history_smoothed,
                   silent_ticks, boundary>>

(***************************************************************************)
(* process_midi: one iteration of the loop over the messages read.         *)
(***************************************************************************)
\* Faulty variant of NoteOn: the round-robin index advances on every note-on,
\* also for a note that already has a color.
NoteOn_always_advances(data) ==
    /\ current_note' = data[2]
    /\ current_velocity' = data[3]
    /\ is_note_active' = TRUE
    /\ note_colors' =
         IF data[2] \notin DOMAIN note_colors
         THEN SetItem(note_colors, data[2],
                      NOTE_COLORS[(color_index % Len(NOTE_COLORS)) + 1])
         ELSE note_colors
    /\ color_index' = color_index + 1
    /\ UNCHANGED <<cc_values>>

\* status == 0x90 and data[2] > 0
NoteOn(data) ==
    /\ current_note' = data[2]
    /\ current_velocity' = data[3]
    /\ is_note_active' = TRUE
    /\ IF data[2] \notin DOMAIN note_colors
       THEN /\ note_colors' = SetItem(note_colors, data[2],
                                NOTE_COLORS[(color_index % Len(NOTE_COLORS)) + 1])
            /\ color_index' = color_index + 1
       ELSE UNCHANGED <<note_colors, color_index>>
    /\ UNCHANGED <<cc_values>>

\* Faulty variant of NoteOff: releases whatever note is named.
NoteOff_any_note(data) ==
    /\ is_note_active' = FALSE
    /\ UNCHANGED <<current_note, current_velocity, note_colors, color_index,
                   cc_values>>
\* status == 0x80 or (status == 0x90 and data[2] == 0)
NoteOff(data) ==
    /\ is_note_active' = IF current_note = data[2] THEN FALSE ELSE is_note_active
    /\ UNCHANGED <<current_note, current_velocity, note_colors, color_index,
                   cc_values>>

\* Faulty variant of ControlChange: controller 7 feeds the velocity whatever
\* is selected.
ControlChange_fixed_cc(data) ==
    /\ cc_values' = SetItem(cc_values, data[2], data[3])
    /\ current_velocity' = IF data[2] = 7 THEN data[3] ELSE current_velocity
    /\ UNCHANGED <<current_note, is_note_active, note_colors, color_index>>
\* status == 0xB0
ControlChange(data) ==
    /\ cc_values' = SetItem(cc_values, data[2], data[3])
    /\ current_velocity' = IF data[2] = selected_cc THEN data[3]
                           ELSE current_velocity
    /\ UNCHANGED <<current_note, is_note_active, note_colors, color_index>>

\* Any other message (logged in debug mode only).
OtherMessage(data) ==
    UNCHANGED <<current_note, current_velocity, is_note_active, note_colors,
                color_index, cc_values>>

HandleMessage(data) ==
    /\ pc = "midi"
    /\ data \in midi_input
    /\ n_read < MaxRead
    /\ n_read' = n_read + 1
    /\ event' = data
    /\ IF status(data) = 144 /\ data[3] > 0 THEN NoteOn(data)
       ELSE IF status(data) = 128 \/ (status(data) = 144 /\ data[3] = 0)
            THEN NoteOff(data)
       ELSE IF status(data) = 176 THEN ControlChange(data)
       ELSE OtherMessage(data)
    /\ velocity_final' = NoSeries
    /\ note_history_smoothed' = NoSeries
    /\ UNCHANGED <<velocity_history, note_history, stats, selected_cc,
                   midi_input, pc, key, silent_ticks, boundary>>

(***************************************************************************)
(* process_midi after the loop: "Update velocity history".                 *)
(***************************************************************************)
\* The code of the step; the two actions below add what happens to the
\* history variables silent_ticks and boundary.
PushStep ==
    /\ pc = "midi"
    /\ pc' = "render"
    /\ event' = NoEvent
    /\ n_read' = 0
    /\ IF is_note_active
       THEN /\ velocity_history' = Push(velocity_history, current_velocity)
            /\ note_history' = Push(note_history, current_note)
            /\ stats' = UpdatedStats(stats, velocity_history', note_history',
                                     current_note)
            /\ velocity_final' = NoSeries
            /\ note_history_smoothed' = NoSeries
       ELSE UNCHANGED <<velocity_history, note_history, stats, velocity_final,
                        note_history_smoothed>>
    /\ UNCHANGED <<current_note, current_velocity, is_note_active, note_colors,
                   color_index, cc_values, selected_cc, midi_input, key>>

UpdateHistory ==
    /\ PushStep
    /\ UNCHANGED <<silent_ticks, boundary>>

\* The same step, with the time since the last push recorded: silent_ticks
\* counts the process_midi calls that pushed nothing (up to gap_threshold + 1),
\* and boundary follows the last sample pushed before a silence longer than
\* gap_threshold for as long as it is in the window.
UpdateHistoryTimed ==
    /\ PushStep
    /\ IF is_note_active
       THEN /\ silent_ticks' = 0
            /\ boundary' =
                 IF silent_ticks > gap_threshold
                    /\ note_history[Len(note_history)] # -1
                 THEN Len(note_history) - 1
                 ELSE IF boundary > 0 THEN boundary - 1 ELSE 0
       ELSE /\ silent_ticks' = Min(silent_ticks + 1, gap_threshold + 1)
            /\ UNCHANGED boundary

(***************************************************************************)
(* render: update_graph.                                                   *)
(***************************************************************************)
Render ==
    /\ pc = "render"
    /\ pc' = "pygame"
    /\ LET g == update_graph(velocity_history, note_history)
       IN  /\ velocity_history' = g.velocity_history
           /\ note_history' = g.note_history
           /\ velocity_final' = g.velocity_final
           /\ note_history_smoothed' = g.note_history_smoothed
    /\ UNCHANGED <<current_note, current_velocity, is_note_active, note_colors,
                   color_index, stats, cc_values, selected_cc, midi_input,
                   key, event, n_read, silent_ticks, boundary>>

Next ==
    \/ KeyClear
    \/ \E n \in SelectKeys : KeySelect(n)
    \/ EndPygame
    \/ \E data \in Messages : HandleMessage(data)
    \/ UpdateHistory
    \/ Render

Spec == Init /\ [][Next]_vars

(***************************************************************************)
(* SpecSilence: a keyboard is played, and the time since the last push is  *)
(* recorded.                                                               *)
(***************************************************************************)
InitSilence == midi_input = Keyboard /\ Constructed

NextSilence ==
    \/ KeyClear
    \/ EndPygame
    \/ \E data \in Keyboard : HandleMessage(data)
    \/ UpdateHistoryTimed
    \/ Render

SpecSilence == InitSilence /\ [][NextSilence]_vars

(***************************************************************************)
(* SpecSmooth: the smoother on a window of SmoothLen samples.  The program *)
(* is taken up after a phrase that left the window as                      *)
(*   never-written slots, anchor a, g1 zeros, anchor b,                    *)
(*   [g2 zeros, anchor a,] t zeros                                         *)
(* (note 60 struck with velocity a, its breath dropping to 0 for g1 ticks, *)
(* note nb struck with velocity b, the breath on controller 7 then moving  *)
(* to 0 and back to a, and to 0 again, and the note released), and it runs *)
(* idle frames from there: no key, no message, only the renders.           *)
(***************************************************************************)
SmoothVelocities == {51, 80, 100}
SmoothGaps == {0, 1, 5, 14, 20, 21}
\* g2, or -1 when there is no third anchor.
ThirdGaps == {-1, 0, 2}
SmoothTails == {0, 2}

Shapes ==
    [a : SmoothVelocities, b : SmoothVelocities, g1 : SmoothGaps,
     g2 : ThirdGaps, t : SmoothTails, nb : Notes]

Rep(n, x) == [i \in 1..n |-> x]

\* The samples written, oldest first, as <<velocity, note>>.
Phrase(sh) ==
    <<<<sh.a, 60>>>> \o Rep(sh.g1, <<0, 60>>) \o <<<<sh.b, sh.nb>>>>
    \o (IF sh.g2 >= 0 THEN Rep(sh.g2, <<0, sh.nb>>) \o <<<<sh.a, sh.nb>>>>
        ELSE <<>>)
    \o Rep(sh.t, <<0, sh.nb>>)

Window(sh) == Rep(SmoothLen - Len(Phrase(sh)), <<0, -1>>) \o Phrase(sh)

\* What controller 7 carried last, if it was used at all.
LastBreath(sh) ==
    IF sh.t > 0 THEN SetItem(EmptyMap, 7, 0)
    ELSE IF sh.g2 >= 0 THEN SetItem(EmptyMap, 7, sh.a)
    ELSE IF sh.g1 > 0 THEN SetItem(EmptyMap, 7, 0)
    ELSE EmptyMap

Instrument ==
    {<<144, n, v>> : n \in Notes, v \in SmoothVelocities}
    \cup {<<144, n, 0>> : n \in Notes}
    \cup {<<176, 7, v>> : v \in SmoothVelocities \cup {0}}

InitSmooth ==
    \E sh \in Shapes :
        /\ Len(Phrase(sh)) <= SmoothLen
        /\ velocity_history = [i \in 1..SmoothLen |-> Window(sh)[i][1]]
        /\ note_history = [i \in 1..SmoothLen |-> Window(sh)[i][2]]
        /\ current_note = sh.nb
        /\ current_velocity = Window(sh)[SmoothLen][1]
        /\ is_note_active = FALSE
        /\ note_colors = IF sh.nb = 60
                         THEN SetItem(EmptyMap, 60, NOTE_COLORS[1])
                         ELSE SetItem(SetItem(EmptyMap, 60, NOTE_COLORS[1]),
                                      sh.nb, NOTE_COLORS[2])
        /\ color_index = IF sh.nb = 60 THEN 1 ELSE 2
        /\ stats = UpdatedStats(InitialStats, velocity_history, note_history,
                                sh.nb)
        /\ cc_values = LastBreath(sh)
        /\ selected_cc = 7
        /\ midi_input = Instrument
        /\ pc = "render"
        /\ key = NoKey
        /\ event = NoEvent
        /\ n_read = 0
        /\ velocity_final = NoSeries
        /\ note_history_smoothed = NoSeries
        /\ silent_ticks = 0
        /\ boundary = 0

NextSmooth ==
    \/ EndPygame
    \/ UpdateHistory
    \/ Render

SpecSmooth == InitSmooth /\ [][NextSmooth]_vars

(***************************************************************************)
(* SpecColors: a tune of 13 distinct notes, one more than the palette has  *)
(* entries.  The player goes through the tune in order and may strike its  *)
(* first note again at any time; after a clear the tune starts over.       *)
(***************************************************************************)
Tune == <<60, 67, 62, 69, 64, 71, 66, 61, 68, 63, 70, 65, 72>>

Scale == {<<144, Tune[j], 80>> : j \in 1..Len(Tune)}

\* The notes the player may strike next.
NextInTune(data) ==
    LET k == Cardinality(DOMAIN note_colors)
    IN  \/ data[2] = Tune[1]
        \/ k < Len(Tune) /\ data[2] = Tune[k + 1]

InitColors == midi_input = Scale /\ Constructed

NextColors ==
    \/ KeyClear
    \/ EndPygame
    \/ \E data \in Scale : NextInTune(data) /\ HandleMessage(data)
    \/ UpdateHistory
    \/ Render

SpecColors == InitColors /\ [][NextColors]_vars

(***************************************************************************)
(* Properties.                                                             *)
(***************************************************************************)
Window_N == 1..Len(velocity_history)

Rendered == velocity_final # NoSeries

\* A call of process_midi returns: the step of "Update velocity history".
TickStep == pc = "midi" /\ pc' = "render"

\* A message is handled: one iteration of process_midi's loop.
MessageStep == pc = "midi" /\ pc' = "midi" /\ n_read' = n_read + 1

AllSentinel ==
    /\ velocity_history' = [i \in 1..HISTORY_LENGTH |-> 0]
    /\ note_history' = [i \in 1..HISTORY_LENGTH |-> -1]

\* C1: both histories always hold exactly HISTORY_LENGTH samples; a push (a
\* tick with a note active) drops the oldest sample of both, moves every other
\* sample one place toward the old end and appends the current velocity and
\* note as the newest; no other step changes a history, except a clear, which
\* resets both.
C1_FixedWindowPush ==
    [][ /\ Len(velocity_history) = HISTORY_LENGTH
        /\ Len(note_history) = HISTORY_LENGTH
        /\ Len(velocity_history') = HISTORY_LENGTH
        /\ Len(note_history') = HISTORY_LENGTH
        /\ IF TickStep /\ is_note_active
           THEN /\ \A i \in 1..(HISTORY_LENGTH - 1) :
                      /\ velocity_history'[i] = velocity_history[i + 1]
                      /\ note_history'[i] = note_history[i + 1]
                /\ velocity_history'[HISTORY_LENGTH] = current_velocity
                /\ note_history'[HISTORY_LENGTH] = current_note
           ELSE \/ UNCHANGED <<velocity_history, note_history>>
                \/ pc = "pygame" /\ AllSentinel
      ]_vars

\* C1 witness: the window is full of written samples, the two oldest differ,
\* and a push has just been made.
C1_Witness ==
    /\ pc = "render"
    /\ is_note_active
    /\ \A i \in Window_N : note_history[i] # -1
    /\ velocity_history[1] # velocity_history[2]
    /\ note_history[1] # note_history[HISTORY_LENGTH]

\* C2: every tick, with or without an active note, evicts the oldest sample
\* and moves the others one place toward the old end.
C2_EveryTickAdvances ==
    [][ TickStep =>
          \A i \in 1..(HISTORY_LENGTH - 1) :
              /\ velocity_history'[i] = velocity_history[i + 1]
              /\ note_history'[i] = note_history[i + 1]
      ]_vars

\* C3: while the last sample pushed before a silence of more than
\* gap_threshold ticks is in the window, the series shows the silence: the
\* sample that follows it has velocity zero.
C3_LongSilenceShowsAsDrop ==
    (Rendered /\ boundary > 0) => velocity_final[boundary + 1] = FZero

\* Position i lies in a maximal run of at most 20 zeros with an anchor on
\* either side.
InBriefGap(i) ==
    \E p \in 1..(i - 1), q \in (i + 1)..Len(velocity_history) :
        /\ velocity_history[p] > 0
        /\ velocity_history[q] > 0
        /\ \A k \in (p + 1)..(q - 1) : velocity_history[k] = 0
        /\ q - p - 1 <= 20

\* C4: in the series, a sample whose raw velocity is 0 is non-zero exactly
\* when it lies in a run of at most 20 zeros between two anchors.
C4_BridgedIffBriefGap ==
    Rendered =>
        \A i \in Window_N :
            velocity_history[i] = 0 =>
                (velocity_final[i] # FZero <=> InBriefGap(i))

\* C4 witness: one series with a bridged sample, an unbridged sample between
\* two anchors (a run of more than 20), and an unbridged sample before the
\* first anchor.
C4_Witness ==
    /\ Rendered
    /\ \E i \in Window_N :
          velocity_history[i] = 0 /\ InBriefGap(i) /\ velocity_final[i] # FZero
    /\ \E i \in Window_N :
          /\ velocity_history[i] = 0 /\ velocity_final[i] = FZero
          /\ \E p \in 1..(i - 1) : velocity_history[p] > 0
          /\ \E q \in (i + 1)..Len(velocity_history) : velocity_history[q] > 0
    /\ velocity_history[1] = 0 /\ velocity_final[1] = FZero

\* Two anchors with nothing but 1 to 20 zeros between them.
BridgedPair(p, q) ==
    /\ p < q - 1
    /\ q - p - 1 <= 20
    /\ velocity_history[p] > 0
    /\ velocity_history[q] > 0
    /\ \A k \in (p + 1)..(q - 1) : velocity_history[k] = 0

\* C5: across every bridged gap the display values lie between the two anchor
\* velocities a and b, are at least 0.7 * min(a, b), and move monotonically
\* from a toward b.
C5_BridgeMonotoneWithinAnchors ==
    Rendered =>
        \A p \in Window_N, q \in Window_N :
            BridgedPair(p, q) =>
                LET a == velocity_history[p]
                    b == velocity_history[q]
                    lo == IF a <= b THEN a ELSE b
                    hi == IF a <= b THEN b ELSE a
                IN  /\ \A k \in (p + 1)..(q - 1) :
                          /\ FLeq(FromInt(lo), velocity_final[k])
                          /\ FLeq(velocity_final[k], FromInt(hi))
                          /\ FLeq(FromInt(7 * lo), XMul(10, velocity_final[k]))
                    /\ \A k \in (p + 1)..(q - 2) :
                          /\ a <= b => FLeq(velocity_final[k], velocity_final[k + 1])
                          /\ a >= b => FLeq(velocity_final[k + 1], velocity_final[k])

\* The samples of the current note that carry a velocity.
CurrentNoteSamples ==
    {i \in Window_N : note_history[i] = current_note /\ velocity_history[i] > 0}

\* A push has just been made: process_midi returned with a note active.
Pushed == pc = "render" /\ is_note_active

\* C6: after a push that leaves no sample of the current note with a
\* velocity, the four statistics are zero.
C6_EmptySubsetZeroStats ==
    (Pushed /\ CurrentNoteSamples = {}) =>
        /\ stats.mean = FZero
        /\ stats.std_dev[1] = 0
        /\ stats.min = 0
        /\ stats.max = 0

RECURSIVE VelocitySum(_)
VelocitySum(S) ==
    IF S = {} THEN 0
    ELSE LET i == CHOOSE x \in S : TRUE
         IN  velocity_history[i] + VelocitySum(S \ {i})

\* C7: after a push that leaves samples of the current note with a velocity,
\* min, max and mean are those of exactly these samples.
C7_StatsOfCurrentNoteOnly ==
    (Pushed /\ CurrentNoteSamples # {}) =>
        /\ \E i \in CurrentNoteSamples : stats.min = velocity_history[i]
        /\ \A i \in CurrentNoteSamples : stats.min <= velocity_history[i]
        /\ \E i \in CurrentNoteSamples : stats.max = velocity_history[i]
        /\ \A i \in CurrentNoteSamples : stats.max >= velocity_history[i]
        /\ stats.mean = FDiv(FromInt(VelocitySum(CurrentNoteSamples)),
                             Cardinality(CurrentNoteSamples))

\* C7 witness: the window holds a sample of another note and two samples of
\* the current note with different velocities.
C7_Witness ==
    /\ Pushed
    /\ \E i \in Window_N :
          /\ velocity_history[i] > 0
          /\ note_history[i] \notin {current_note, -1}
    /\ \E i \in CurrentNoteSamples, j \in CurrentNoteSamples :
          velocity_history[i] < velocity_history[j]
    /\ stats.min < stats.max

\* C8: update_graph changes neither history, nor the player state, the color
\* table or the statistics; its two series have the length of the window; and
\* computed again with nothing handled in between, they are the same series.
C8_SmoothingReadsOnly ==
    [][ pc = "render" =>
          /\ UNCHANGED core
          /\ Len(velocity_final') = Len(velocity_history)
          /\ Len(note_history_smoothed') = Len(velocity_history)
          /\ Rendered =>
                /\ velocity_final' = velocity_final
                /\ note_history_smoothed' = note_history_smoothed
      ]_vars

\* C8 witness: a second computation is about to start on a window whose
\* series has a bridged sample with a note-id other than the raw one.
C8_Witness ==
    /\ pc = "render"
    /\ Rendered
    /\ \E i \in Window_N :
          /\ velocity_history[i] = 0
          /\ velocity_final[i] # FZero
          /\ note_history_smoothed[i] # note_history[i]

\* C9: a control change always records its value in cc_values, and sets
\* current_velocity exactly when its controller is the selected one; selecting
\* a controller leaves current_velocity as it is; 7 is selected at the start.
C9_SelectedControllerFeedsVelocity ==
    /\ selected_cc = 7
    /\ [][ /\ (MessageStep /\ status(event') = 176) =>
                /\ cc_values' = [c \in DOMAIN cc_values \cup {event'[2]} |->
                                    IF c = event'[2] THEN event'[3]
                                    ELSE cc_values[c]]
                /\ current_velocity' = IF event'[2] = selected_cc
                                       THEN event'[3] ELSE current_velocity
           /\ selected_cc' # selected_cc => current_velocity' = current_velocity
         ]_vars

\* C9 witness: with controller 2 selected and the velocity set by it, a
\* control change of controller 7 has been handled and has not changed it.
C9_Witness ==
    /\ pc = "midi"
    /\ selected_cc = 2
    /\ event = <<176, 7, 0>>
    /\ 2 \in DOMAIN cc_values
    /\ cc_values[2] = 100
    /\ cc_values[7] = 0
    /\ current_velocity = 100

\* status nibble 0x8, or status nibble 0x9 with data byte 2 = 0
IsNoteOff(data) ==
    /\ data # NoEvent
    /\ status(data) = 128 \/ (status(data) = 144 /\ data[3] = 0)

\* C10: a note-off clears is_note_active exactly when its note is the current
\* note, and changes nothing else of the player state, the histories, the
\* color table or the controller map.
C10_NoteOffOnlyReleasesCurrent ==
    [][ (MessageStep /\ IsNoteOff(event')) =>
          /\ is_note_active' = (is_note_active /\ current_note # event'[2])
          /\ UNCHANGED <<current_note, current_velocity, velocity_history,
                         note_history, note_colors, color_index, cc_values>>
      ]_vars

\* C10 witness: note 62 is still active after the note-off of note 60.
C10_Witness ==
    /\ pc = "midi"
    /\ IsNoteOff(event)
    /\ event[2] = 60
    /\ current_note = 62
    /\ is_note_active
    /\ 60 \in DOMAIN note_colors


(***************************************************************************)
(* Event classification.                                                   *)
(***************************************************************************)
\* The status nibble of a message, from its first byte.
Nibble(data) == data[1] \div 16

Kind(data) ==
    IF Nibble(data) = 9 /\ data[3] > 0 THEN "NoteOn"
    ELSE IF Nibble(data) = 8 \/ (Nibble(data) = 9 /\ data[3] = 0) THEN "NoteOff"
    ELSE IF Nibble(data) = 11 THEN "ControlChange"
    ELSE "Other"

\* C11: every message is handled as exactly one of NoteOn (nibble 9, data
\* byte 2 > 0), NoteOff (nibble 9 with data byte 2 = 0, or nibble 8),
\* ControlChange (nibble 11) and Other (anything else), and an Other message
\* changes no core state.
C11_OneKindPerMessage ==
    [][ MessageStep =>
          LET data == event'
          IN  /\ Kind(data) = "NoteOn" =>
                    /\ current_note' = data[2]
                    /\ current_velocity' = data[3]
                    /\ is_note_active'
                    /\ cc_values' = cc_values
              /\ Kind(data) = "NoteOff" =>
                    /\ is_note_active' = (is_note_active /\ current_note # data[2])
                    /\ UNCHANGED <<current_note, current_velocity, cc_values,
                                   note_colors, color_index>>
              /\ Kind(data) = "ControlChange" =>
                    /\ data[2] \in DOMAIN cc_values'
                    /\ cc_values'[data[2]] = data[3]
                    /\ UNCHANGED <<current_note, is_note_active, note_colors,
                                   color_index>>
              /\ Kind(data) = "Other" => UNCHANGED core ]_vars

\* C11 witness: a note-off on channel 1 (0x81) has released the sounding note
\* with a controller value stored.
C11_Witness ==
    /\ event = <<129, 60, 0>>
    /\ current_note = 60
    /\ ~is_note_active
    /\ velocity_history[HISTORY_LENGTH] > 0
    /\ cc_values # EmptyMap


(***************************************************************************)
(* Color assignment.                                                       *)
(***************************************************************************)
\* Palette entry k (counted from 0).
Palette(k) == NOTE_COLORS[(k % 12) + 1]

\* The notes seen since the start or the last clear are the first notes of
\* the tune, in the tune's order.
SeenInOrder ==
    DOMAIN note_colors =
        {Tune[j] : j \in 1..Cardinality(DOMAIN note_colors)}

\* C12: the k-th distinct note seen since the start or the last clear
\* (k = 0, 1, ...) has palette entry k mod 12, so the first 12 distinct notes
\* have 12 distinct colors and the 13th has palette entry 0; a note-on for a
\* note that has a color assigns nothing and leaves the round-robin index
\* alone; a note's color changes only by a clear.
C12_RoundRobinColors ==
    /\ [](/\ SeenInOrder
          /\ \A j \in 1..Cardinality(DOMAIN note_colors) :
                note_colors[Tune[j]] = Palette(j - 1)
          /\ \A i, j \in 1..12 :
                (i # j /\ Tune[i] \in DOMAIN note_colors
                       /\ Tune[j] \in DOMAIN note_colors)
                    => note_colors[Tune[i]] # note_colors[Tune[j]])
    /\ [][ /\ (MessageStep /\ Kind(event') = "NoteOn"
                  /\ event'[2] \in DOMAIN note_colors)
              => UNCHANGED <<note_colors, color_index>>
           /\ (MessageStep /\ Kind(event') = "NoteOn"
                  /\ event'[2] \notin DOMAIN note_colors)
              => /\ event'[2] \in DOMAIN note_colors'
                 /\ note_colors'[event'[2]] = Palette(Cardinality(DOMAIN note_colors))
                 /\ color_index' = color_index + 1
           /\ \/ KeyClear
              \/ \A n \in DOMAIN note_colors :
                    n \in DOMAIN note_colors' /\ note_colors'[n] = note_colors[n]
       ]_vars

\* C12 witness: all 13 notes of the tune have a color, the 13th the one of
\* the 1st, and the first note has just been struck again.
C12_Witness ==
    /\ Cardinality(DOMAIN note_colors) = 13
    /\ note_colors[Tune[13]] = NOTE_COLORS[1]
    /\ note_colors[Tune[12]] = NOTE_COLORS[12]
    /\ color_index = 13
    /\ event = <<144, Tune[1], 80>>
    /\ current_note = Tune[1]


(***************************************************************************)
(* Clear.                                                                  *)
(***************************************************************************)
\* The K_c key is handled: a clear action.
ClearStep == pc = "pygame" /\ pc' = "pygame" /\ key' = K_c

\* C13: right after a clear every history slot is the sentinel (0, -1), the
\* color table is empty and the round-robin index is 0; the next note seen
\* by a note-on (the table is still empty) gets palette entry 0.
C13_ClearResetsHistoryAndColors ==
    [][ /\ ClearStep =>
              /\ AllSentinel
              /\ note_colors' = EmptyMap
              /\ color_index' = 0
        /\ (MessageStep /\ Kind(event') = "NoteOn" /\ note_colors = EmptyMap)
              => note_colors' = SetItem(EmptyMap, event'[2], NOTE_COLORS[1])
        /\ (~ClearStep /\ ~(MessageStep /\ Kind(event') = "NoteOn"))
              => UNCHANGED <<note_colors, color_index>> ]_vars

\* C13 witness: after a note was pushed (the statistics show it) the history
\* was cleared, and the note struck next has palette entry 0.
C13_Witness ==
    /\ event = <<144, 62, 80>>
    /\ note_colors = SetItem(EmptyMap, 62, NOTE_COLORS[1])
    /\ color_index = 1
    /\ velocity_history = Zeros(HISTORY_LENGTH)
    /\ note_history = NoNotes(HISTORY_LENGTH)
    /\ stats.max > 0


\* C14: a clear resets all core state in one step: right after it the
\* history and the color table are reset and the player state (current note,
\* active flag, current velocity, controller values) and the statistics are
\* back at their initial values.
C14_ClearResetsAllCoreState ==
    [][ ClearStep =>
          /\ AllSentinel
          /\ note_colors' = EmptyMap
          /\ color_index' = 0
          /\ current_note' = None
          /\ is_note_active' = FALSE
          /\ current_velocity' = 0
          /\ cc_values' = EmptyMap
          /\ stats' = InitialStats ]_vars


(***************************************************************************)
(* Moving average and note-ids of the series.                              *)
(***************************************************************************)
\* The velocities after the bridging loop, before the moving average.
BridgedVelocities == Bridged(velocity_history, note_history).vel

\* The 3-point centered average at an interior index i.
Average3(vs, i) == FDiv(FAdd(FAdd(vs[i - 1], vs[i]), vs[i + 1]), 3)

\* C15: in the series the 3-point centered moving average is applied exactly
\* to the interior samples whose raw velocity is non-zero; a bridged sample
\* (raw velocity 0) keeps its interpolated value, and the samples at the two
\* ends keep their unsmoothed value.
C15_AverageOnlyRawNonZero ==
    Rendered =>
        \A i \in Window_N :
            velocity_final[i] =
                IF 1 < i /\ i < Len(velocity_history) /\ velocity_history[i] > 0
                THEN Average3(BridgedVelocities, i)
                ELSE BridgedVelocities[i]


\* The anchors next to position i.
LeftAnchor(i) ==
    CHOOSE p \in 1..(i - 1) :
        velocity_history[p] > 0 /\ \A k \in (p + 1)..i : velocity_history[k] = 0

RightAnchor(i) ==
    CHOOSE q \in (i + 1)..Len(velocity_history) :
        velocity_history[q] > 0 /\ \A k \in i..(q - 1) : velocity_history[k] = 0

\* C16: every bridged sample of the series carries the note-id of the
\* right-hand anchor of its gap when that is valid (>= 0), and that of the
\* left-hand anchor only when the right-hand one is invalid; a sample that is
\* not bridged keeps the note-id of the raw history.
C16_BridgedNoteFromRightAnchor ==
    Rendered =>
        \A i \in Window_N :
            IF velocity_history[i] = 0 /\ InBriefGap(i)
            THEN LET end_note == note_history[RightAnchor(i)]
                     start_note == note_history[LeftAnchor(i)]
                 IN  note_history_smoothed[i] =
                         IF end_note >= 0 THEN end_note
                         ELSE IF start_note >= 0 THEN start_note
                         ELSE note_history[i]
            ELSE note_history_smoothed[i] = note_history[i]

\* C16 witness: a bridged sample between an anchor of note 60 and an anchor
\* of note 62 shows as note 62, and a zero outside any brief gap keeps its
\* raw note-id.
C16_Witness ==
    /\ Rendered
    /\ \E i \in Window_N :
          /\ velocity_history[i] = 0 /\ InBriefGap(i)
          /\ note_history[LeftAnchor(i)] = 60
          /\ note_history[RightAnchor(i)] = 62
          /\ note_history[i] = 60
          /\ note_history_smoothed[i] = 62
    /\ \E i \in Window_N :
          /\ velocity_history[i] = 0 /\ ~InBriefGap(i)
          /\ note_history_smoothed[i] = note_history[i]


(***************************************************************************)
(* Sentinel samples and colors of the notes in the history.                *)
(***************************************************************************)
\* C17 as stated: a history sample has velocity 0 exactly when its note-id
\* is -1.
C17_ZeroVelocityIffNoNote ==
    \A i \in 1..Len(velocity_history) :
        velocity_history[i] = 0 <=> note_history[i] = -1

\* C17 as amended: a history sample with note-id -1 has velocity 0, so every
\* sample with a non-zero velocity carries a valid note-id; a sample with
\* velocity 0 may carry a valid note-id (it was pushed while a note was
\* active and the current velocity was 0).
C17_NoNoteHasZeroVelocity ==
    \A i \in 1..Len(velocity_history) :
        /\ velocity_history[i] \in 0..127
        /\ note_history[i] \in {-1} \cup 0..127
        /\ note_history[i] = -1 => velocity_history[i] = 0

\* C17 witness: the history holds a sentinel, a sample of note 60 with
\* velocity 0 and a sample with a non-zero velocity.
C17_Witness ==
    /\ \E i \in 1..Len(velocity_history) :
          velocity_history[i] = 0 /\ note_history[i] = -1
    /\ \E i \in 1..Len(velocity_history) :
          velocity_history[i] = 0 /\ note_history[i] = 60
    /\ \E i \in 1..Len(velocity_history) :
          velocity_history[i] > 0 /\ note_history[i] >= 0
    /\ is_note_active
    /\ current_velocity = 0


\* C18: every valid note-id (>= 0) in the history, and the current note
\* whenever a note is active, has an entry in the note color table.
C18_EveryNoteHasAColor ==
    /\ \A i \in 1..Len(note_history) :
          note_history[i] >= 0 => note_history[i] \in DOMAIN note_colors
    /\ is_note_active => current_note \in DOMAIN note_colors

=============================================================================
